---------------------------- MODULE Spec2Model ----------------------------
(***************************************************************************)
(* Impact-story pipeline of backend/app/service/ai_service.py.             *)
(*                                                                         *)
(* Two layers are modelled:                                                *)
(*   - the Orchestrator workflow (_ORCHESTRATOR_INSTRUCTION, STEP 1..5),   *)
(*     which sequences the four capabilities and owns the retry loop;      *)
(*   - the Entry Point generate_impact_story: the event loop that collects *)
(*     final_text, the empty-result check, _extract_json, json.loads,      *)
(*     ValidationOutput and the two result shapes.                         *)
(*                                                                         *)
(* Text is a sequence of tokens.  Every token stands for one fixed piece   *)
(* of text: a punctuation character, the fence marker, one whitespace      *)
(* character, or a run of letters.  The regular expressions of             *)
(* _extract_json and the JSON grammar only look at token boundaries.       *)
(***************************************************************************)
EXTENDS Integers, Sequences, FiniteSets, TLC

-----------------------------------------------------------------------------
(* Tokens *)

LB    == "{"
RB    == "}"
LK    == "["
RK    == "]"
COLON == ":"
COMMA == ","
DQ    == "\""
BS    == "\\"
SQ    == "'"
FENCE == "FENCE"   \* the three-backquote code-fence marker
SP    == " "
NL    == "\n"

IsWS(tok) == tok \in {SP, NL}

\* JSON literals that are neither strings, arrays nor objects.
Literals == {"null", "true", "false", "1"}

-----------------------------------------------------------------------------
(* str.strip() *)

RECURSIVE SkipWS(_, _)
SkipWS(t, i) == IF i <= Len(t) /\ IsWS(t[i]) THEN SkipWS(t, i + 1) ELSE i

RECURSIVE SkipWSBack(_, _)
SkipWSBack(t, j) == IF j >= 1 /\ IsWS(t[j]) THEN SkipWSBack(t, j - 1) ELSE j

strip(t) ==
    LET i == SkipWS(t, 1)
        j == SkipWSBack(t, Len(t))
    IN  IF i > j THEN <<>> ELSE SubSeq(t, i, j)

-----------------------------------------------------------------------------
(* re.sub(r"```(?:json)?\s*", "", text) *)

RECURSIVE RemoveFences(_, _)
RemoveFences(t, i) ==
    IF i > Len(t) THEN <<>>
    ELSE IF t[i] = FENCE
         THEN LET j == IF i + 1 <= Len(t) /\ t[i + 1] = "json"
                       THEN i + 2 ELSE i + 1
              IN  RemoveFences(t, SkipWS(t, j))
         ELSE <<t[i]>> \o RemoveFences(t, i + 1)

(* re.search(r"\{.*\}", text, re.DOTALL): first "{" to the last "}" *)

RECURSIVE FirstIndex(_, _, _)
FirstIndex(t, tok, i) ==
    IF i > Len(t) THEN 0
    ELSE IF t[i] = tok THEN i ELSE FirstIndex(t, tok, i + 1)

RECURSIVE LastIndex(_, _, _)
LastIndex(t, tok, j) ==
    IF j < 1 THEN 0
    ELSE IF t[j] = tok THEN j ELSE LastIndex(t, tok, j - 1)

(* re.sub(r"\\'", "'", json_str): leftmost non-overlapping matches *)

RECURSIVE FixEscapes(_, _)
FixEscapes(t, i) ==
    IF i > Len(t) THEN <<>>
    ELSE IF t[i] = BS /\ i + 1 <= Len(t) /\ t[i + 1] = SQ
         THEN <<SQ>> \o FixEscapes(t, i + 2)
         ELSE <<t[i]>> \o FixEscapes(t, i + 1)

-----------------------------------------------------------------------------
(* json.loads on token sequences.                                          *)
(* A parsed value is a record: [type |-> "str", str |-> tokens],           *)
(* [type |-> "lit", lit |-> token], [type |-> "arr", items |-> values] or  *)
(* [type |-> "obj", keys |-> texts, vals |-> values] (keys in insertion    *)
(* order, a repeated key keeps its first position and its last value, as   *)
(* a Python dict does).  A parse step returns [ok, val, pos].              *)

Bad == [type |-> "bad"]
ParseFail == [ok |-> FALSE, val |-> Bad, pos |-> 0]
ParseOk(v, p) == [ok |-> TRUE, val |-> v, pos |-> p]

JStr(s) == [type |-> "str", str |-> s]
JArr(items) == [type |-> "arr", items |-> items]
JObj(keys, vals) == [type |-> "obj", keys |-> keys, vals |-> vals]

\* The body of a string literal, from the token after the opening quote.
\* Escapes: \\ and \" are decoded; a backslash before anything else
\* (in particular \') is an invalid escape; a raw newline is a control
\* character, which json.loads rejects.
RECURSIVE ScanString(_, _, _)
ScanString(t, i, acc) ==
    IF i > Len(t) THEN ParseFail
    ELSE IF t[i] = DQ THEN ParseOk(JStr(acc), i + 1)
    ELSE IF t[i] = BS
         THEN IF i + 1 <= Len(t) /\ t[i + 1] \in {BS, DQ}
              THEN ScanString(t, i + 2, Append(acc, t[i + 1]))
              ELSE ParseFail
    ELSE IF t[i] = NL THEN ParseFail
    ELSE ScanString(t, i + 1, Append(acc, t[i]))

RECURSIVE KeyIndex(_, _, _)
KeyIndex(keys, k, i) ==
    IF i > Len(keys) THEN 0
    ELSE IF keys[i] = k THEN i ELSE KeyIndex(keys, k, i + 1)

\* dict[k] = v
PutKey(obj, k, v) ==
    LET i == KeyIndex(obj.keys, k, 1)
    IN  IF i = 0
        THEN JObj(Append(obj.keys, k), Append(obj.vals, v))
        ELSE JObj(obj.keys, [obj.vals EXCEPT ![i] = v])

RECURSIVE ParseValue(_, _)
RECURSIVE ParseMembers(_, _, _)
RECURSIVE ParseElements(_, _, _)

\* After "{" or ",": whitespace, a string key, ":", a value, then "," or "}".
ParseMembers(t, i, obj) ==
    LET k0 == SkipWS(t, i)
    IN  IF k0 > Len(t) \/ t[k0] # DQ THEN ParseFail
        ELSE LET key == ScanString(t, k0 + 1, <<>>)
             IN  IF ~key.ok THEN ParseFail
                 ELSE LET c == SkipWS(t, key.pos)
                      IN  IF c > Len(t) \/ t[c] # COLON THEN ParseFail
                          ELSE LET v == ParseValue(t, c + 1)
                               IN  IF ~v.ok THEN ParseFail
                                   ELSE LET e == SkipWS(t, v.pos)
                                            o2 == PutKey(obj, key.val.str, v.val)
                                        IN  IF e > Len(t) THEN ParseFail
                                            ELSE IF t[e] = RB THEN ParseOk(o2, e + 1)
                                            ELSE IF t[e] = COMMA THEN ParseMembers(t, e + 1, o2)
                                            ELSE ParseFail

\* After "[" or ",": a value, then "," or "]".
ParseElements(t, i, items) ==
    LET v == ParseValue(t, i)
    IN  IF ~v.ok THEN ParseFail
        ELSE LET e == SkipWS(t, v.pos)
                 a2 == Append(items, v.val)
             IN  IF e > Len(t) THEN ParseFail
                 ELSE IF t[e] = RK THEN ParseOk(JArr(a2), e + 1)
                 ELSE IF t[e] = COMMA THEN ParseElements(t, e + 1, a2)
                 ELSE ParseFail

ParseValue(t, i) ==
    LET s == SkipWS(t, i)
    IN  IF s > Len(t) THEN ParseFail
        ELSE IF t[s] = DQ THEN ScanString(t, s + 1, <<>>)
        ELSE IF t[s] \in Literals THEN ParseOk([type |-> "lit", lit |-> t[s]], s + 1)
        ELSE IF t[s] = LB
             THEN LET n == SkipWS(t, s + 1)
                  IN  IF n <= Len(t) /\ t[n] = RB
                      THEN ParseOk(JObj(<<>>, <<>>), n + 1)
                      ELSE ParseMembers(t, s + 1, JObj(<<>>, <<>>))
        ELSE IF t[s] = LK
             THEN LET n == SkipWS(t, s + 1)
                  IN  IF n <= Len(t) /\ t[n] = RK
                      THEN ParseOk(JArr(<<>>), n + 1)
                      ELSE ParseElements(t, s + 1, <<>>)
        ELSE ParseFail

\* json.loads(t): one value, then only whitespace up to the end.
json_loads(t) ==
    LET v == ParseValue(t, 1)
    IN  IF v.ok /\ SkipWS(t, v.pos) > Len(t) THEN v ELSE ParseFail

-----------------------------------------------------------------------------
(* json.dumps with the default separators ", " and ": " *)

RECURSIVE EncodeString(_, _)
EncodeString(s, i) ==
    IF i > Len(s) THEN <<>>
    ELSE IF s[i] \in {BS, DQ} THEN <<BS, s[i]>> \o EncodeString(s, i + 1)
    ELSE <<s[i]>> \o EncodeString(s, i + 1)

RECURSIVE json_dumps(_)
RECURSIVE DumpItems(_, _)
RECURSIVE DumpMembers(_, _)

DumpItems(items, i) ==
    IF i > Len(items) THEN <<>>
    ELSE (IF i > 1 THEN <<COMMA, SP>> ELSE <<>>)
         \o json_dumps(items[i]) \o DumpItems(items, i + 1)

DumpMembers(obj, i) ==
    IF i > Len(obj.keys) THEN <<>>
    ELSE (IF i > 1 THEN <<COMMA, SP>> ELSE <<>>)
         \o <<DQ>> \o EncodeString(obj.keys[i], 1) \o <<DQ, COLON, SP>>
         \o json_dumps(obj.vals[i]) \o DumpMembers(obj, i + 1)

json_dumps(v) ==
    IF v.type = "str" THEN <<DQ>> \o EncodeString(v.str, 1) \o <<DQ>>
    ELSE IF v.type = "lit" THEN <<v.lit>>
    ELSE IF v.type = "arr" THEN <<LK>> \o DumpItems(v.items, 1) \o <<RK>>
    ELSE <<LB>> \o DumpMembers(v, 1) \o <<RB>>

-----------------------------------------------------------------------------
(* _extract_json *)

HasKey(obj, k) == KeyIndex(obj.keys, k, 1) # 0
GetKey(obj, k) == obj.vals[KeyIndex(obj.keys, k, 1)]

\* Step 4: a dict with exactly one key whose value is a dict containing
\* "status" is replaced by json.dumps of that inner dict; anything else,
\* a parse error included, leaves json_str as it is.
Unwrap(json_str) ==
    LET candidate == json_loads(json_str)
    IN  IF candidate.ok /\ candidate.val.type = "obj" /\ Len(candidate.val.keys) = 1
        THEN LET inner == candidate.val.vals[1]
             IN  IF inner.type = "obj" /\ HasKey(inner, <<"status">>)
                 THEN json_dumps(inner)
                 ELSE json_str
        ELSE json_str

\* Variant: the span ends at the first "}" after the first "{".
_extract_json_NonGreedy(raw) ==
    LET text  == strip(RemoveFences(raw, 1))
        first == FirstIndex(text, LB, 1)
        last  == IF first = 0 THEN 0 ELSE FirstIndex(text, RB, first)
    IN  IF first = 0 \/ last < first
        THEN text
        ELSE Unwrap(FixEscapes(SubSeq(text, first, last), 1))

\* Variant: when no parseable text results, the input is returned untouched.
_extract_json_ReturnsRaw(raw) ==
    LET text  == strip(RemoveFences(raw, 1))
        first == FirstIndex(text, LB, 1)
        last  == LastIndex(text, RB, Len(text))
        fixed == Unwrap(FixEscapes(SubSeq(text, first, last), 1))
    IN  IF first = 0 \/ last < first THEN raw
        ELSE IF json_loads(fixed).ok THEN fixed
        ELSE raw

_extract_json(raw) ==
    LET text  == strip(RemoveFences(raw, 1))
        first == FirstIndex(text, LB, 1)
        last  == LastIndex(text, RB, Len(text))
    IN  IF first = 0 \/ last < first
        THEN text
        ELSE Unwrap(FixEscapes(SubSeq(text, first, last), 1))

-----------------------------------------------------------------------------
(* ValidationOutput (pydantic model): the Validation Verdict schema *)

IsStr(v) == v.type = "str"

RECURSIVE AllStr(_, _)
AllStr(items, i) ==
    IF i > Len(items) THEN TRUE
    ELSE IsStr(items[i]) /\ AllStr(items, i + 1)

RECURSIVE StrList(_, _)
StrList(items, i) ==
    IF i > Len(items) THEN <<>>
    ELSE <<items[i].str>> \o StrList(items, i + 1)

IsStrList(v) == v.type = "arr" /\ AllStr(v.items, 1)

StatusPattern == {<<"APPROVED">>, <<"REJECTED">>}

\* Variant: the status is any string, the pattern is not applied.
SchemaAccepts_AnyStatus(payload) ==
    /\ HasKey(payload, <<"status">>)
    /\ IsStr(GetKey(payload, <<"status">>))
    /\ Len(GetKey(payload, <<"status">>).str) = 1
    /\ HasKey(payload, <<"story">>)
    /\ IsStr(GetKey(payload, <<"story">>))
    /\ HasKey(payload, <<"factual_errors">>) => IsStrList(GetKey(payload, <<"factual_errors">>))
    /\ HasKey(payload, <<"writing_issues">>) => IsStrList(GetKey(payload, <<"writing_issues">>))
    /\ HasKey(payload, <<"facts_summary">>) => IsStr(GetKey(payload, <<"facts_summary">>))

\* Field(...): status and story are required; the other three have defaults.
\* Keys that are not fields of the model are ignored.
SchemaAccepts(payload) ==
    /\ HasKey(payload, <<"status">>)
    /\ IsStr(GetKey(payload, <<"status">>))
    /\ GetKey(payload, <<"status">>).str \in StatusPattern
    /\ HasKey(payload, <<"story">>)
    /\ IsStr(GetKey(payload, <<"story">>))
    /\ HasKey(payload, <<"factual_errors">>) => IsStrList(GetKey(payload, <<"factual_errors">>))
    /\ HasKey(payload, <<"writing_issues">>) => IsStrList(GetKey(payload, <<"writing_issues">>))
    /\ HasKey(payload, <<"facts_summary">>) => IsStr(GetKey(payload, <<"facts_summary">>))

ValidationOutput(payload) ==
    [ status         |-> GetKey(payload, <<"status">>).str[1],
      story          |-> GetKey(payload, <<"story">>).str,
      factual_errors |-> IF HasKey(payload, <<"factual_errors">>)
                         THEN StrList(GetKey(payload, <<"factual_errors">>).items, 1)
                         ELSE <<>>,
      writing_issues |-> IF HasKey(payload, <<"writing_issues">>)
                         THEN StrList(GetKey(payload, <<"writing_issues">>).items, 1)
                         ELSE <<>>,
      facts_summary  |-> IF HasKey(payload, <<"facts_summary">>)
                         THEN GetKey(payload, <<"facts_summary">>).str
                         ELSE <<>> ]

\* The JSON object of a verdict, all five fields present.
RECURSIVE JStrList(_, _)
JStrList(texts, i) ==
    IF i > Len(texts) THEN <<>>
    ELSE <<JStr(texts[i])>> \o JStrList(texts, i + 1)

VerdictJson(v) ==
    JObj(<< <<"status">>, <<"story">>, <<"factual_errors">>,
            <<"writing_issues">>, <<"facts_summary">> >>,
         << JStr(<<v.status>>), JStr(v.story), JArr(JStrList(v.factual_errors, 1)),
            JArr(JStrList(v.writing_issues, 1)), JStr(v.facts_summary) >>)

-----------------------------------------------------------------------------
(* generate_impact_story: the try block of the parse (lines 539-567) *)

\* The exception the try block raises on final text ft, "none" if it
\* completes: json.loads fails, **payload is applied to a non-dict, or the
\* model rejects the payload.
ParseError(ft) ==
    LET payload == json_loads(_extract_json(ft))
    IN  IF ~payload.ok THEN "JSONDecodeError"
        ELSE IF payload.val.type # "obj" THEN "TypeError"
        ELSE IF ~SchemaAccepts(payload.val) THEN "ValidationError"
        ELSE "none"

\* Variant: the repaired text is surfaced instead of the raw text.
DegradedStory_Repaired(ft) == _extract_json(ft)

\* The story field of the degraded result.
DegradedStory(ft) == ft

DegradedResult(ft, exc, org, elapsed) ==
    [ status         |-> "ERROR",
      story          |-> DegradedStory(ft),
      factual_errors |-> << <<"Output parse failure: ", exc>> >>,
      writing_issues |-> <<>>,
      facts_summary  |-> <<>>,
      org_id         |-> org,
      total_elapsed  |-> elapsed ]

\* str.replace(old, new) on a token sequence
replace(t, old, new) == [ i \in 1..Len(t) |-> IF t[i] = old THEN new ELSE t[i] ]

\* Variant: the subject is echoed as it was sanitised for the session id.
NormalResult_SanitisedOrg(ft, org, elapsed) ==
    LET r == ValidationOutput(json_loads(_extract_json(ft)).val)
    IN  [ status         |-> r.status,
          story          |-> r.story,
          factual_errors |-> r.factual_errors,
          writing_issues |-> r.writing_issues,
          facts_summary  |-> r.facts_summary,
          org_id         |-> replace(org, SP, "_"),
          total_elapsed  |-> elapsed ]

NormalResult(ft, org, elapsed) ==
    LET r == ValidationOutput(json_loads(_extract_json(ft)).val)
    IN  [ status         |-> r.status,
          story          |-> r.story,
          factual_errors |-> r.factual_errors,
          writing_issues |-> r.writing_issues,
          facts_summary  |-> r.facts_summary,
          org_id         |-> org,
          total_elapsed  |-> elapsed ]

NoResult ==
    [ status |-> "NONE", story |-> <<>>, factual_errors |-> <<>>,
      writing_issues |-> <<>>, facts_summary |-> <<>>,
      org_id |-> <<>>, total_elapsed |-> 0 ]

-----------------------------------------------------------------------------
(* generate_impact_story: the body of the event loop (lines 512-525) *)

None == [set |-> FALSE, text |-> <<>>]
Some(t) == [set |-> TRUE, text |-> t]

\* A part: has_text is FALSE for a part without text (a function call or a
\* function response); a part with has_text and text = <<>> is the empty string.
TextPart(t) == [has_text |-> TRUE, text |-> t]
CallPart == [has_text |-> FALSE, text |-> <<>>]

\* An event: author "none" is an event without an author attribute; no
\* content, or content without parts, is parts = <<>>.
Event(author, parts) == [author |-> author, parts |-> parts]

\* Index of the first part with non-empty text, 0 when there is none:
\* the loop over the parts breaks at that part.
RECURSIVE FirstTextPart(_, _)
FirstTextPart(parts, i) ==
    IF i > Len(parts) THEN 0
    ELSE IF parts[i].has_text /\ parts[i].text # <<>> THEN i
    ELSE FirstTextPart(parts, i + 1)

IsTopLevel(event) == event.author = "orchestrator"

\* Variant: the author of the event is not looked at.
LoopBody_AnyAuthor(ft, event) ==
    LET k == FirstTextPart(event.parts, 1)
    IN  IF k # 0 THEN Some(event.parts[k].text) ELSE ft

\* Variant: the loop over the parts does not break, the last part with text
\* is kept.
LoopBody_LastPart(ft, event) ==
    LET textual == { k \in 1..Len(event.parts) :
                       event.parts[k].has_text /\ event.parts[k].text # <<>> }
    IN  IF textual # {} /\ IsTopLevel(event)
        THEN Some(event.parts[CHOOSE k \in textual : \A m \in textual : m <= k].text)
        ELSE ft

LoopBody(ft, event) ==
    LET k == FirstTextPart(event.parts, 1)
    IN  IF k # 0 /\ IsTopLevel(event) THEN Some(event.parts[k].text) ELSE ft

-----------------------------------------------------------------------------
(* Constants and the values the capabilities may produce *)

_MAX_REWRITES == 2

MaxNarration == 1     \* orchestrator events that carry text before the final one
MaxElapsed   == 1     \* total_elapsed ranges over 0..MaxElapsed
MaxEvents    == 3     \* length of an arbitrary event stream

OrgIds == { <<"Example">>, <<"Red", SP, "Cross">> }

NoInternalData  == <<"No internal annual report data available.">>
InternalReports == { <<"ir1">>, NoInternalData }
ResearchReports == { <<"rr1">> }
StoryDrafts     == { <<"d1">>, <<"it", BS, SQ, "s">> }
\* what a Validation pass may find: nothing, an unsupported claim, a writing problem
Findings        == { [factual_errors |-> <<>>,           writing_issues |-> <<>>],
                     [factual_errors |-> << <<"e1">> >>, writing_issues |-> <<>>],
                     [factual_errors |-> <<>>,           writing_issues |-> << <<"w1">> >>] }
FactsSummaries  == { <<"fs">> }
Causes          == { "backend error" }
Suffixes        == { "0a1b2c3d" }     \* uuid.uuid4().hex[:8]
Narration       == <<"Calling", SP, "agent">>

-----------------------------------------------------------------------------
VARIABLES
    pc,               \* Orchestrator state: INIT, INTERNAL_DATA, RESEARCH,
                      \* SYNTHESIZE, VALIDATE, FINALIZE or ABORTED
    inflight,         \* capability invocations in progress
    rewrites_so_far,  \* rewrite attempts made
    internal_report,  \* INTERNAL REPORT as saved
    research_report,  \* RESEARCH REPORT as saved
    story_draft,      \* STORY DRAFT as saved
    saved_json,       \* validation JSON as saved
    emitted,          \* the verdict output as the final message
    synth_log,        \* what each Synthesis invocation was passed
    val_log,          \* what each Validation invocation was passed
    drafts,           \* what each Synthesis invocation returned
    verdicts,         \* what each Validation invocation returned
    events,           \* the event stream seen by generate_impact_story
    final_text,       \* generate_impact_story: final_text
    epc,              \* generate_impact_story: running, returned or raised
    result,           \* the returned dict
    failure,          \* the raised RuntimeError
    parse_attempted,  \* the try block of the parse was entered
    org_id,           \* argument of generate_impact_story
    session_id,       \* generate_impact_story: session_id
    response,         \* generate_story: what the request layer answers
    sample,           \* _extract_json alone: the text under repair and its origin
    once,             \* _extract_json(raw)
    twice,            \* _extract_json(_extract_json(raw))
    rstep,            \* _extract_json alone: applications made
    search_env,       \* search_annual_reports: environment and backend behaviour
    search_out,       \* search_annual_reports: outcome of the call
    runs,             \* concurrent calls of generate_impact_story
    stores            \* the session stores the concurrent calls created

orchVars  == <<pc, inflight, rewrites_so_far, internal_report, research_report,
               story_draft, saved_json, emitted, synth_log, val_log, drafts, verdicts>>
entryVars == <<events, final_text, epc, result, failure, parse_attempted, org_id,
               session_id>>
repairVars == <<sample, once, twice, rstep>>
searchVars == <<search_env, search_out>>
concVars   == <<runs, stores>>
vars      == <<pc, inflight, rewrites_so_far, internal_report, research_report,
               story_draft, saved_json, emitted, synth_log, val_log, drafts, verdicts,
               events, final_text, epc, result, failure, parse_attempted, org_id,
               session_id, response, sample, once, twice, rstep, search_env,
               search_out, runs, stores>>

NoVerdict ==
    [ status |-> "NONE", story |-> <<>>, factual_errors |-> <<>>,
      writing_issues |-> <<>>, facts_summary |-> <<>> ]

NoFailure == [message |-> "none", cause |-> "none"]

\* session_id = f"{org_id.replace(' ', '_')}_{uuid.uuid4().hex[:8]}"
SessionId(org, suffix) == replace(org, SP, "_") \o <<"_", suffix>>

\* no answer of the request layer yet
NoResponse == [status_code |-> 0, detail |-> <<>>, body |-> NoResult]

\* values of the variables a specification does not use
NoSample    == [ kind |-> "none", raw |-> <<>>, clean |-> <<>>, whole |-> <<>>,
                 verdict |-> NoVerdict ]
RepairIdle  == sample = NoSample /\ once = <<>> /\ twice = <<>> /\ rstep = 0
SearchIdle  == search_env = <<>> /\ search_out = <<>>   \* the tool is not part of the run
ConcIdle    == runs = <<>> /\ stores = <<>>             \* a single call

\* generate_impact_story is entered: nothing ran yet
PipelineInit ==
    /\ pc = "INIT"
    /\ inflight = {}
    /\ rewrites_so_far = 0
    /\ internal_report = <<>>
    /\ research_report = <<>>
    /\ story_draft = <<>>
    /\ saved_json = NoVerdict
    /\ emitted = NoVerdict
    /\ synth_log = <<>>
    /\ val_log = <<>>
    /\ drafts = <<>>
    /\ verdicts = <<>>
    /\ events = <<>>
    /\ final_text = None
    /\ epc = "running"
    /\ result = NoResult
    /\ failure = NoFailure
    /\ parse_attempted = FALSE
    /\ org_id \in OrgIds
    /\ \E suffix \in Suffixes : session_id = SessionId(org_id, suffix)
    /\ response = NoResponse

Init == PipelineInit /\ RepairIdle /\ SearchIdle /\ ConcIdle

-----------------------------------------------------------------------------
(* The sub-capabilities *)

\* validation_agent (_VALIDATION_INSTRUCTION, PASS 3 and CRITICAL RULES):
\* factual_errors lists every unsupported claim, writing_issues lists every
\* writing problem, APPROVED when there is none of either, REJECTED
\* otherwise; story is the draft being evaluated.
validation_agent(draft, fe, wi, fs) ==
    [ status         |-> IF fe = <<>> /\ wi = <<>> THEN "APPROVED" ELSE "REJECTED",
      story          |-> draft,
      factual_errors |-> fe,
      writing_issues |-> wi,
      facts_summary  |-> fs ]

-----------------------------------------------------------------------------
(* What the Orchestrator passes to a capability *)

Passed(t) == [passed |-> TRUE, text |-> t]
Omitted   == [passed |-> FALSE, text |-> <<>>]

\* "the INTERNAL REPORT (if available)"
IfAvailable(report) == IF report = NoInternalData THEN Omitted ELSE Passed(report)

\* STEP 2
DraftRequest(internal, research) ==
    [ internal       |-> IfAvailable(internal),
      research       |-> Passed(research),
      draft          |-> Omitted,
      factual_errors |-> <<>>,
      writing_issues |-> <<>> ]

\* Variant: the rewrite is asked for as STEP 4b asks for the validation,
\* without the INTERNAL REPORT.
RewriteRequest_NoInternal(internal, research, draft, verdict) ==
    [ internal       |-> Omitted,
      research       |-> Passed(research),
      draft          |-> Passed(draft),
      factual_errors |-> verdict.factual_errors,
      writing_issues |-> verdict.writing_issues ]

\* STEP 4a
RewriteRequest(internal, research, draft, verdict) ==
    [ internal       |-> IfAvailable(internal),
      research       |-> Passed(research),
      draft          |-> Passed(draft),
      factual_errors |-> verdict.factual_errors,
      writing_issues |-> verdict.writing_issues ]

\* STEP 3
ValidateRequest(internal, research, draft) ==
    [ internal |-> IfAvailable(internal),
      research |-> Passed(research),
      draft    |-> draft ]

\* STEP 4b
RevalidateRequest(internal, research, draft) ==
    [ internal |-> Omitted,
      research |-> Passed(research),
      draft    |-> draft ]

\* Variants of the retry test: one rewrite too many; the verdict not looked at.
ShouldRetry_OffByOne(verdict, rewrites) ==
    verdict.status = "REJECTED" /\ rewrites <= _MAX_REWRITES

ShouldRetry_IgnoresStatus(verdict, rewrites) ==
    rewrites < _MAX_REWRITES

\* STEP 4: "If the JSON status is REJECTED AND you have made fewer than
\* _MAX_REWRITES rewrite attempts so far"
ShouldRetry(verdict, rewrites) ==
    verdict.status = "REJECTED" /\ rewrites < _MAX_REWRITES

\* Variant: STEP 4c skipped, the first saved response is kept.
SaveJson_KeepsFirst(old, new) == IF old.status = "NONE" THEN new ELSE old

\* STEP 3 "Save the full JSON response", STEP 4c "Update your saved JSON response"
SaveJson(old, new) == new

\* STEP 5: the validation JSON, verbatim
FinalMessage(verdict) == json_dumps(VerdictJson(verdict))

-----------------------------------------------------------------------------
(* Events of a run *)

RECURSIVE TextEvents(_, _)
TextEvents(evs, i) ==
    IF i > Len(evs) THEN 0
    ELSE (IF IsTopLevel(evs[i]) /\ FirstTextPart(evs[i].parts, 1) # 0 THEN 1 ELSE 0)
         + TextEvents(evs, i + 1)

\* The function-call event of a capability invocation; the model that
\* drives the Orchestrator may put text in front of the call.
CallEvent(narrate) ==
    Event("orchestrator",
          IF narrate THEN <<TextPart(Narration), CallPart>> ELSE <<CallPart>>)

\* The output of a sub-capability, in the same stream.
OutputEvent(agent, text) == Event(agent, <<TextPart(text)>>)

\* One iteration of "async for event in runner.run_async(...)".
Yield(event) ==
    /\ events' = Append(events, event)
    /\ final_text' = LoopBody(final_text, event)

\* Variant: a capability is called while another call is still in progress.
Invoke_Parallel(agent, narrate) ==
    /\ epc = "running"
    /\ narrate => TextEvents(events, 1) < MaxNarration
    /\ inflight' = inflight \cup {agent}
    /\ Yield(CallEvent(narrate))

\* A capability is called: the Orchestrator waits for its output before the
\* next step ("Never skip steps or change their order").
Invoke(agent, narrate) ==
    /\ epc = "running"
    /\ inflight = {}
    /\ narrate => TextEvents(events, 1) < MaxNarration
    /\ inflight' = {agent}
    /\ Yield(CallEvent(narrate))

Returns(agent, text) ==
    /\ epc = "running"
    /\ inflight = {agent}
    /\ inflight' = {}
    /\ Yield(OutputEvent(agent, text))

-----------------------------------------------------------------------------
(* Orchestrator workflow: _ORCHESTRATOR_INSTRUCTION, STEP 1 to STEP 5 *)

\* STEP 1a: call internal_data_agent
CallInternalData ==
    /\ pc = "INIT"
    /\ \E narrate \in BOOLEAN : Invoke("internal_data_agent", narrate)
    /\ pc' = "INTERNAL_DATA"
    /\ UNCHANGED <<rewrites_so_far, internal_report, research_report, story_draft,
                   saved_json, emitted, synth_log, val_log, drafts, verdicts>>
    /\ UNCHANGED <<epc, result, failure, parse_attempted, org_id, session_id, response,
                   repairVars, searchVars, concVars>>

\* STEP 1a: "Save as INTERNAL REPORT"
InternalDataReturns ==
    /\ pc = "INTERNAL_DATA"
    /\ \E report \in InternalReports :
          /\ Returns("internal_data_agent", report)
          /\ internal_report' = report
    /\ UNCHANGED <<pc, rewrites_so_far, research_report, story_draft,
                   saved_json, emitted, synth_log, val_log, drafts, verdicts>>
    /\ UNCHANGED <<epc, result, failure, parse_attempted, org_id, session_id, response,
                   repairVars, searchVars, concVars>>

\* STEP 1b: call research_agent
CallResearch ==
    /\ pc = "INTERNAL_DATA"
    /\ \E narrate \in BOOLEAN : Invoke("research_agent", narrate)
    /\ pc' = "RESEARCH"
    /\ UNCHANGED <<rewrites_so_far, internal_report, research_report, story_draft,
                   saved_json, emitted, synth_log, val_log, drafts, verdicts>>
    /\ UNCHANGED <<epc, result, failure, parse_attempted, org_id, session_id, response,
                   repairVars, searchVars, concVars>>

\* STEP 1b: "Save the full output as the RESEARCH REPORT"
ResearchReturns ==
    /\ pc = "RESEARCH"
    /\ \E report \in ResearchReports :
          /\ Returns("research_agent", report)
          /\ research_report' = report
    /\ UNCHANGED <<pc, rewrites_so_far, internal_report, story_draft,
                   saved_json, emitted, synth_log, val_log, drafts, verdicts>>
    /\ UNCHANGED <<epc, result, failure, parse_attempted, org_id, session_id, response,
                   repairVars, searchVars, concVars>>

\* STEP 2: call synthesis_agent (attempt 1)
CallSynthesis ==
    /\ pc = "RESEARCH"
    /\ \E narrate \in BOOLEAN : Invoke("synthesis_agent", narrate)
    /\ pc' = "SYNTHESIZE"
    /\ synth_log' = Append(synth_log, DraftRequest(internal_report, research_report))
    /\ UNCHANGED <<rewrites_so_far, internal_report, research_report, story_draft,
                   saved_json, emitted, val_log, drafts, verdicts>>
    /\ UNCHANGED <<epc, result, failure, parse_attempted, org_id, session_id, response,
                   repairVars, searchVars, concVars>>

\* STEP 2 and STEP 4a: "Save the output as STORY DRAFT"
SynthesisReturns ==
    /\ pc = "SYNTHESIZE"
    /\ \E draft \in StoryDrafts :
          /\ Returns("synthesis_agent", draft)
          /\ story_draft' = draft
          /\ drafts' = Append(drafts, draft)
    /\ UNCHANGED <<pc, rewrites_so_far, internal_report, research_report,
                   saved_json, emitted, synth_log, val_log, verdicts>>
    /\ UNCHANGED <<epc, result, failure, parse_attempted, org_id, session_id, response,
                   repairVars, searchVars, concVars>>

\* STEP 3: call validation_agent on the first draft
CallValidation ==
    /\ pc = "SYNTHESIZE"
    /\ rewrites_so_far = 0
    /\ \E narrate \in BOOLEAN : Invoke("validation_agent", narrate)
    /\ pc' = "VALIDATE"
    /\ val_log' = Append(val_log,
                         ValidateRequest(internal_report, research_report, story_draft))
    /\ UNCHANGED <<rewrites_so_far, internal_report, research_report, story_draft,
                   saved_json, emitted, synth_log, drafts, verdicts>>
    /\ UNCHANGED <<epc, result, failure, parse_attempted, org_id, session_id, response,
                   repairVars, searchVars, concVars>>

\* STEP 4b: call validation_agent again on the new draft
CallValidationAgain ==
    /\ pc = "SYNTHESIZE"
    /\ rewrites_so_far > 0
    /\ \E narrate \in BOOLEAN : Invoke("validation_agent", narrate)
    /\ pc' = "VALIDATE"
    /\ val_log' = Append(val_log,
                         RevalidateRequest(internal_report, research_report, story_draft))
    /\ UNCHANGED <<rewrites_so_far, internal_report, research_report, story_draft,
                   saved_json, emitted, synth_log, drafts, verdicts>>
    /\ UNCHANGED <<epc, result, failure, parse_attempted, org_id, session_id, response,
                   repairVars, searchVars, concVars>>

\* STEP 3 "Save the full JSON response" and STEP 4c
ValidationReturns ==
    /\ pc = "VALIDATE"
    /\ \E found \in Findings, fs \in FactsSummaries :
          LET verdict == validation_agent(val_log[Len(val_log)].draft,
                                          found.factual_errors, found.writing_issues, fs)
          IN  /\ Returns("validation_agent", json_dumps(VerdictJson(verdict)))
              /\ saved_json' = SaveJson(saved_json, verdict)
              /\ verdicts' = Append(verdicts, verdict)
    /\ UNCHANGED <<pc, rewrites_so_far, internal_report, research_report, story_draft,
                   emitted, synth_log, val_log, drafts>>
    /\ UNCHANGED <<epc, result, failure, parse_attempted, org_id, session_id, response,
                   repairVars, searchVars, concVars>>

\* Variant: a rejected draft with budget left is looked at again and again;
\* no rewrite is requested and nothing is counted.
Rewrite_Spins ==
    /\ pc = "VALIDATE"
    /\ ShouldRetry(saved_json, rewrites_so_far)
    /\ UNCHANGED vars

\* STEP 4a (and 4d "repeat from (a)"): call synthesis_agent again
Rewrite ==
    /\ pc = "VALIDATE"
    /\ ShouldRetry(saved_json, rewrites_so_far)
    /\ \E narrate \in BOOLEAN : Invoke("synthesis_agent", narrate)
    /\ pc' = "SYNTHESIZE"
    /\ rewrites_so_far' = rewrites_so_far + 1
    /\ synth_log' = Append(synth_log,
                           RewriteRequest(internal_report, research_report,
                                          story_draft, saved_json))
    /\ UNCHANGED <<internal_report, research_report, story_draft,
                   saved_json, emitted, val_log, drafts, verdicts>>
    /\ UNCHANGED <<epc, result, failure, parse_attempted, org_id, session_id, response,
                   repairVars, searchVars, concVars>>

\* Variant: the Orchestrator stops waiting for a Validation that is still
\* in progress and outputs what it has saved.
Finalize_GivesUp ==
    /\ pc = "VALIDATE"
    /\ epc = "running"
    /\ ~ShouldRetry(saved_json, rewrites_so_far)
    /\ pc' = "FINALIZE"
    /\ emitted' = saved_json
    /\ Yield(Event("orchestrator", <<TextPart(FinalMessage(saved_json))>>))
    /\ UNCHANGED <<inflight, rewrites_so_far, internal_report, research_report,
                   story_draft, saved_json, synth_log, val_log, drafts, verdicts>>
    /\ UNCHANGED <<epc, result, failure, parse_attempted, org_id, session_id, response,
                   repairVars, searchVars, concVars>>

\* STEP 5: the loop has ended; output the validation JSON as the final message
Finalize ==
    /\ pc = "VALIDATE"
    /\ epc = "running"
    /\ inflight = {}
    /\ ~ShouldRetry(saved_json, rewrites_so_far)
    /\ pc' = "FINALIZE"
    /\ emitted' = saved_json
    /\ Yield(Event("orchestrator", <<TextPart(FinalMessage(saved_json))>>))
    /\ UNCHANGED <<inflight, rewrites_so_far, internal_report, research_report,
                   story_draft, saved_json, synth_log, val_log, drafts, verdicts>>
    /\ UNCHANGED <<epc, result, failure, parse_attempted, org_id, session_id, response,
                   repairVars, searchVars, concVars>>

-----------------------------------------------------------------------------
(* generate_impact_story: leaving the event loop *)

\* Variant: the exception is swallowed and the text collected so far is
\* surfaced as a degraded result.
RaiseFailed_Swallows(cause) ==
    /\ epc' = "returned"
    /\ result' = DegradedResult(final_text.text, cause, org_id, 0)
    /\ UNCHANGED <<events, final_text, failure, parse_attempted, org_id, session_id, response,
                   repairVars, searchVars, concVars>>

\* "except Exception as exc: raise RuntimeError(...) from exc"
RaiseFailed(cause) ==
    /\ epc' = "raised"
    /\ failure' = [message |-> "Impact story generation failed: ", cause |-> cause]
    /\ UNCHANGED <<events, final_text, result, parse_attempted, org_id, session_id, response,
                   repairVars, searchVars, concVars>>

\* Variant: no empty-result check.
IsEmptyResult_Never(ft) == FALSE

\* "if final_text is None"
IsEmptyResult(ft) == ~ft.set

\* Lines 531-567: the stream is exhausted.
PostLoop ==
    \E elapsed \in 0..MaxElapsed :
        IF IsEmptyResult(final_text)
        THEN /\ epc' = "raised"
             /\ failure' = [message |-> "Pipeline completed but produced no output.",
                            cause |-> "none"]
             /\ UNCHANGED <<events, final_text, result, parse_attempted, org_id, session_id, response,
                   repairVars, searchVars, concVars>>
        ELSE /\ epc' = "returned"
             /\ parse_attempted' = TRUE
             /\ result' = IF ParseError(final_text.text) = "none"
                          THEN NormalResult(final_text.text, org_id, elapsed)
                          ELSE DegradedResult(final_text.text, ParseError(final_text.text),
                                              org_id, elapsed)
             /\ UNCHANGED <<events, final_text, failure, org_id, session_id, response,
                   repairVars, searchVars, concVars>>

\* A capability invocation raises: the exception leaves run_async.
CapabilityFails ==
    /\ epc = "running"
    /\ inflight # {}
    /\ \E cause \in Causes : RaiseFailed(cause)
    /\ inflight' = {}
    /\ pc' = "ABORTED"
    /\ UNCHANGED <<rewrites_so_far, internal_report, research_report, story_draft,
                   saved_json, emitted, synth_log, val_log, drafts, verdicts>>

\* The run is over after the final message.
Complete ==
    /\ pc = "FINALIZE"
    /\ epc = "running"
    /\ PostLoop
    /\ UNCHANGED orchVars

Next ==
    \/ CallInternalData
    \/ InternalDataReturns
    \/ CallResearch
    \/ ResearchReturns
    \/ CallSynthesis
    \/ SynthesisReturns
    \/ CallValidation
    \/ CallValidationAgain
    \/ ValidationReturns
    \/ Rewrite
    \/ Finalize
    \/ CapabilityFails
    \/ Complete

Spec == Init /\ [][Next]_vars

\* The steps of the run up to its final message
OrchestratorStep ==
    \/ CallInternalData \/ InternalDataReturns
    \/ CallResearch \/ ResearchReturns
    \/ CallSynthesis \/ SynthesisReturns
    \/ CallValidation \/ CallValidationAgain \/ ValidationReturns
    \/ Rewrite \/ Finalize
    \/ CapabilityFails

\* The run under the scheduling of the event loop: every awaited capability
\* invocation returns or fails and the orchestrator takes its next step
\* (weak fairness of OrchestratorStep); once the stream is exhausted the
\* code after the loop runs (weak fairness of Complete, written with its
\* enabling condition pc = "FINALIZE" /\ epc = "running").
FairSpec ==
    /\ Spec
    /\ WF_vars(OrchestratorStep)
    /\ []<>~(pc = "FINALIZE" /\ epc = "running")

-----------------------------------------------------------------------------
(* generate_impact_story on an arbitrary event stream *)

ApprovedText   == FinalMessage(validation_agent(<<"d1">>, <<>>, <<>>, <<"fs">>))
RejectedText   == FinalMessage(validation_agent(<<"d1">>, << <<"e1">> >>, <<>>, <<"fs">>))
\* a verdict the schema accepts although APPROVED comes with an error
MixedText      == FinalMessage([ status |-> "APPROVED", story |-> <<"d1">>,
                                 factual_errors |-> << <<"e1">> >>,
                                 writing_issues |-> <<>>, facts_summary |-> <<>> ])
ProseText      == <<"Sorry", SP, "no", SP, "story">>
FencedProse    == <<FENCE, "json", NL, "not", SP, "json", NL, FENCE, NL>>

StreamEvents ==
    { Event("orchestrator", <<TextPart(t)>>) :
          t \in {ApprovedText, RejectedText, MixedText, FencedProse} }
    \cup { Event("validation_agent", <<TextPart(ApprovedText)>>),
           Event("none", <<TextPart(ProseText)>>),
           Event("orchestrator", <<CallPart>>),
           Event("orchestrator", <<TextPart(<<>>)>>),
           Event("orchestrator", <<CallPart, TextPart(<<>>), TextPart(ProseText),
                                   TextPart(RejectedText)>>) }

StreamYields ==
    /\ epc = "running"
    /\ Len(events) < MaxEvents
    /\ \E event \in StreamEvents : Yield(event)
    /\ UNCHANGED <<epc, result, failure, parse_attempted, org_id, session_id, response,
                   repairVars, searchVars, concVars>>
    /\ UNCHANGED orchVars

StreamRaises ==
    /\ epc = "running"
    /\ \E cause \in Causes : RaiseFailed(cause)
    /\ UNCHANGED orchVars

StreamEnds ==
    /\ epc = "running"
    /\ PostLoop
    /\ UNCHANGED orchVars

StreamNext == StreamYields \/ StreamRaises \/ StreamEnds

StreamSpec == Init /\ [][StreamNext]_vars

-----------------------------------------------------------------------------
(* The request layer: POST /stories/generation *)

HTTP_200_OK          == 200
HTTP_502_BAD_GATEWAY == 502

\* str(exc) of the RuntimeError: the formatted message, which embeds the
\* original exception when there is one
str(exc) == IF exc.cause = "none" THEN <<exc.message>> ELSE <<exc.message, exc.cause>>

\* Variant: a result whose status is ERROR is answered as a failure too.
generate_story_ErrorIsFailure(outcome, res, exc) ==
    IF outcome = "raised" \/ res.status = "ERROR"
    THEN [status_code |-> HTTP_502_BAD_GATEWAY, detail |-> str(exc), body |-> NoResult]
    ELSE [status_code |-> HTTP_200_OK, detail |-> <<>>, body |-> res]

\* generate_story: "except RuntimeError as exc: raise HTTPException(502,
\* detail=str(exc))", otherwise "return result"
generate_story(outcome, res, exc) ==
    IF outcome = "raised"
    THEN [status_code |-> HTTP_502_BAD_GATEWAY, detail |-> str(exc), body |-> NoResult]
    ELSE [status_code |-> HTTP_200_OK, detail |-> <<>>, body |-> res]

\* The awaited call is over and the handler answers.
Respond ==
    /\ epc # "running"
    /\ response = NoResponse
    /\ response' = generate_story(epc, result, failure)
    /\ UNCHANGED <<events, final_text, epc, result, failure, parse_attempted, org_id,
                   session_id, repairVars, searchVars, concVars>>
    /\ UNCHANGED orchVars

RequestNext == StreamYields \/ StreamRaises \/ StreamEnds \/ Respond

RequestSpec == Init /\ [][RequestNext]_vars

-----------------------------------------------------------------------------
(* Concurrent calls of generate_impact_story *)

Runs == {1, 2}

MaxRunEvents == 2     \* length of the event stream of a concurrent run

RunEvents ==
    { Event("orchestrator", <<TextPart(ApprovedText)>>),
      Event("orchestrator", <<TextPart(FencedProse)>>) }

\* the session ids two calls can draw
SessionIds == { SessionId(org, suffix) : org \in OrgIds, suffix \in Suffixes }

\* A session of a store: whether it was created, and the events appended to it
NoSession == [exists |-> FALSE, history |-> <<>>]

\* InMemorySessionService(): an empty store
EmptyStore == [ sid \in SessionIds |-> NoSession ]

\* Variant: one session store serves all calls.
NewStore_Shared(r) == 1

\* "session_service = InMemorySessionService()": the store call r creates is
\* its own
NewStore(r) == r

\* The locals of a call that has not started
IdleRun ==
    [ rpc |-> "idle", org |-> <<>>, sid |-> <<>>, store |-> 0, events |-> <<>>,
      final_text |-> None, result |-> NoResult, failure |-> NoFailure ]

ConcInit ==
    /\ PipelineInit /\ org_id = <<"Example">> /\ RepairIdle /\ SearchIdle
    /\ runs = [ r \in Runs |-> IdleRun ]
    /\ stores = [ st \in Runs |-> EmptyStore ]

OthersUnchanged == UNCHANGED <<orchVars, entryVars, response, repairVars, searchVars>>

\* Lines 476-483: the call creates its store and its session.
StartRun(r) ==
    /\ runs[r].rpc = "idle"
    /\ \E org \in OrgIds, suffix \in Suffixes :
          LET sid == SessionId(org, suffix)
              st  == NewStore(r)
          IN  /\ runs' = [runs EXCEPT ![r] = [@ EXCEPT !.rpc = "running", !.org = org,
                                                       !.sid = sid, !.store = st]]
              /\ stores' = [stores EXCEPT ![st][sid] = [exists |-> TRUE, history |-> <<>>]]
    /\ OthersUnchanged

\* An event of the call's stream: the runner appends it to the call's
\* session, and the loop body looks at it.
RunYields(r) ==
    /\ runs[r].rpc = "running"
    /\ Len(runs[r].events) < MaxRunEvents
    /\ \E event \in RunEvents :
          /\ runs' = [runs EXCEPT ![r] = [@ EXCEPT !.events = Append(@, event),
                                                   !.final_text = LoopBody(@, event)]]
          /\ stores' = [stores EXCEPT ![runs[r].store][runs[r].sid].history =
                                          Append(@, event)]
    /\ OthersUnchanged

\* The stream of the call raises.
RunFails(r) ==
    /\ runs[r].rpc = "running"
    /\ \E cause \in Causes :
          runs' = [runs EXCEPT ![r] = [@ EXCEPT !.rpc = "raised",
                      !.failure = [message |-> "Impact story generation failed: ",
                                   cause |-> cause]]]
    /\ UNCHANGED stores
    /\ OthersUnchanged

\* The task of the call is cancelled at an await: CancelledError is not an
\* Exception and leaves the call as it is.
RunCancelled(r) ==
    /\ runs[r].rpc = "running"
    /\ runs' = [runs EXCEPT ![r] = [@ EXCEPT !.rpc = "cancelled"]]
    /\ UNCHANGED stores
    /\ OthersUnchanged

\* The stream of the call is exhausted (lines 531-567).
RunEnds(r) ==
    /\ runs[r].rpc = "running"
    /\ \E elapsed \in 0..MaxElapsed :
          LET ft == runs[r].final_text
          IN  runs' = [runs EXCEPT ![r] =
                  IF IsEmptyResult(ft)
                  THEN [@ EXCEPT !.rpc = "raised",
                           !.failure = [message |-> "Pipeline completed but produced no output.",
                                        cause |-> "none"]]
                  ELSE [@ EXCEPT !.rpc = "returned",
                           !.result = IF ParseError(ft.text) = "none"
                                      THEN NormalResult(ft.text, runs[r].org, elapsed)
                                      ELSE DegradedResult(ft.text, ParseError(ft.text),
                                                          runs[r].org, elapsed)]]
    /\ UNCHANGED stores
    /\ OthersUnchanged

ConcNext ==
    \E r \in Runs :
        \/ StartRun(r)
        \/ RunYields(r)
        \/ RunFails(r)
        \/ RunCancelled(r)
        \/ RunEnds(r)

ConcSpec == ConcInit /\ [][ConcNext]_vars

-----------------------------------------------------------------------------
(* search_annual_reports: the document-search tool *)

PageSize == 3     \* page_size=3: the backend returns at most that many results

LABEL == "[Annual Report]: "

\* os.environ.get("DATA_STORE_ID"): unset (None), set to the empty string, or set
DataStoreIds == { "None", "", "ds1" }

\* A search result: no chunk, a chunk with empty content, or a chunk with content
NoChunk     == [has_chunk |-> FALSE, content |-> <<>>]
Chunk(c)    == [has_chunk |-> TRUE, content |-> c]
SearchResults == { NoChunk, Chunk(<<>>), Chunk(<<"c1">>), Chunk(<<"c2">>) }

\* What client.search does: it raises, or answers with up to PageSize results
BackendBehaviours ==
    { [raises |-> TRUE, results |-> <<>>] }
    \cup { [raises |-> FALSE, results |-> rs] :
              rs \in UNION { [1..n -> SearchResults] : n \in 0..PageSize } }

\* "if result.chunk and result.chunk.content: context += ..."
RECURSIVE Context(_, _)
Context(results, i) ==
    IF i > Len(results) THEN <<>>
    ELSE (IF results[i].has_chunk /\ results[i].content # <<>>
          THEN <<LABEL>> \o results[i].content \o <<NL>>
          ELSE <<>>) \o Context(results, i + 1)

\* How a call ended (done), and how often it called the backend
Returned(text, calls) ==
    [done |-> TRUE, raised |-> FALSE, text |-> text, backend_calls |-> calls]
Raised(calls) ==
    [done |-> TRUE, raised |-> TRUE, text |-> <<>>, backend_calls |-> calls]
NotCalled ==
    [done |-> FALSE, raised |-> FALSE, text |-> <<>>, backend_calls |-> 0]

\* Variant: a failure of the backend leaves the tool as an exception.
search_annual_reports_Propagates(data_store_id, backend) ==
    IF data_store_id \in {"None", ""}
    THEN Returned(<<"ERROR: DATA_STORE_ID is missing from environment variables.">>, 0)
    ELSE IF backend.raises THEN Raised(1)
    ELSE LET context == Context(backend.results, 1)
         IN  Returned(IF context # <<>> THEN context
                      ELSE <<"No annual report data found.">>, 1)

\* search_annual_reports: "if not data_store_id: return ...", then the try
\* block around the backend call, "except Exception as e: return ..."
search_annual_reports(data_store_id, backend) ==
    IF data_store_id \in {"None", ""}
    THEN Returned(<<"ERROR: DATA_STORE_ID is missing from environment variables.">>, 0)
    ELSE IF backend.raises THEN Returned(<<"Database error: ", "e">>, 1)
    ELSE LET context == Context(backend.results, 1)
         IN  Returned(IF context # <<>> THEN context
                      ELSE <<"No annual report data found.">>, 1)

SearchInit ==
    /\ PipelineInit /\ RepairIdle /\ ConcIdle
    /\ search_env \in [ data_store_id : DataStoreIds, backend : BackendBehaviours ]
    /\ search_out = NotCalled

\* The tool is called once.
SearchCall ==
    /\ ~search_out.done
    /\ search_out' = search_annual_reports(search_env.data_store_id, search_env.backend)
    /\ UNCHANGED <<search_env, orchVars, entryVars, response, repairVars, concVars>>

SearchNext == SearchCall

SearchSpec == SearchInit /\ [][SearchNext]_vars

-----------------------------------------------------------------------------
(* _extract_json on its own: applied to a text, and again to its own output *)

\* stories a valid verdict may carry: plain, with an apostrophe, with a
\* backslash followed by an apostrophe, with a code-fence marker
SampleStories ==
    { <<"d1">>, <<"it", SQ, "s">>, <<"it", BS, SQ, "s">>, <<"a", FENCE, "b">> }

SampleVerdicts ==
    { validation_agent(st, <<>>, <<>>, <<"fs">>) : st \in SampleStories }
    \cup { validation_agent(<<"d1">>, << <<"e1">> >>, <<>>, <<"fs">>) }

\* the text with every apostrophe written as backslash-apostrophe
RECURSIVE EscapeQuotes(_, _)
EscapeQuotes(t, i) ==
    IF i > Len(t) THEN <<>>
    ELSE (IF t[i] = SQ THEN <<BS, SQ>> ELSE <<t[i]>>) \o EscapeQuotes(t, i + 1)

Fenced(t)  == <<FENCE, "json", NL>> \o t \o <<NL, FENCE>>
InProse(t) == <<"Here", SP, "it", SP, "is", COLON, NL>> \o t \o <<NL, "Done">>
Wrapped(v) == json_dumps(JObj(<< <<"validation_agent_response">> >>, <<v>>))
TwoKeys(v) == json_dumps(JObj(<< <<"result">>, <<"note">> >>, <<v, JStr(<<"n">>)>>))
NoStatus(st) ==
    json_dumps(JObj(<< <<"result">> >>, << JObj(<< <<"story">> >>, <<JStr(st)>>) >>))

SampleKinds ==
    {"valid", "fenced", "prose", "escaped", "wrapped", "wrapped_fenced",
     "two_keys", "no_status"}

\* The text of kind k made from verdict v: clean is v as JSON, whole the
\* object the text spells when that is not v itself.
Sample(k, v) ==
    LET clean == json_dumps(VerdictJson(v))
        whole == IF k = "two_keys" THEN TwoKeys(VerdictJson(v))
                 ELSE IF k = "no_status" THEN NoStatus(v.story)
                 ELSE IF k \in {"wrapped", "wrapped_fenced"} THEN Wrapped(VerdictJson(v))
                 ELSE clean
        raw   == IF k = "fenced" THEN Fenced(clean)
                 ELSE IF k = "prose" THEN InProse(clean)
                 ELSE IF k = "escaped" THEN EscapeQuotes(clean, 1)
                 ELSE IF k = "wrapped_fenced" THEN Fenced(whole)
                 ELSE whole
    IN  [ kind |-> k, raw |-> raw, clean |-> clean, whole |-> whole, verdict |-> v ]

\* a wrapper around an object whose status is itself an object with a status
NestedWrapper ==
    json_dumps(JObj(<< <<"a">> >>,
        << JObj(<< <<"status">> >>,
                << JObj(<< <<"status">> >>, <<JStr(<<"APPROVED">>)>>) >>) >>))

\* texts that hold no JSON object
Unparseable ==
    { ProseText, FencedProse, <<>>, <<SP, "x", NL>>,
      <<LB, "not", SP, "json", RB>>,
      <<"see", SP, LB, "it", BS, SQ, "s", RB, SP, "here">>,
      <<LB, DQ, "a", DQ>>, <<RB, SP, LB>>,
      <<FENCE, NL, LB, DQ, "a", DQ, COLON, RB, NL, FENCE>> }

Other(k, t) == [ kind |-> k, raw |-> t, clean |-> <<>>, whole |-> t, verdict |-> NoVerdict ]

RepairSamples ==
    { Sample(k, v) : k \in SampleKinds, v \in SampleVerdicts }
    \cup { Other("nested", NestedWrapper) }
    \cup { Other("unparseable", t) : t \in Unparseable }

RepairInit ==
    /\ PipelineInit /\ SearchIdle /\ ConcIdle
    /\ sample \in RepairSamples
    /\ once = <<>>
    /\ twice = <<>>
    /\ rstep = 0

\* _extract_json(raw)
RepairOnce ==
    /\ rstep = 0
    /\ once' = _extract_json(sample.raw)
    /\ rstep' = 1
    /\ UNCHANGED <<sample, twice, orchVars, entryVars, response, searchVars, concVars>>

\* _extract_json applied to what it returned
RepairAgain ==
    /\ rstep = 1
    /\ twice' = _extract_json(once)
    /\ rstep' = 2
    /\ UNCHANGED <<sample, once, orchVars, entryVars, response, searchVars, concVars>>

RepairNext == RepairOnce \/ RepairAgain

RepairSpec == RepairInit /\ [][RepairNext]_vars

-----------------------------------------------------------------------------
(* generate_impact_story on one final message: the parse of objects of every
   shape, and of texts with more than one brace pair *)

\* what the "status" key may hold: nothing, a fitting or misfitting string,
\* a string with a trailing blank, or null
StatusChoices ==
    { [type |-> "absent"], JStr(<<"APPROVED">>), JStr(<<"REJECTED">>),
      JStr(<<"approved">>), JStr(<<"ERROR">>), JStr(<<"APPROVED", SP>>),
      [type |-> "lit", lit |-> "null"] }

StoryChoices == { [type |-> "absent"], JStr(<<"d1">>), [type |-> "lit", lit |-> "1"] }

\* the three optional fields: all there, all omitted, a list with a
\* non-string item, a null summary, or all there with a key the model
\* does not know
OptionalChoices == { "all", "none", "bad_list", "bad_summary", "extra" }

\* the object with these members
ShapedObject(status, story, c) ==
    LET Lit(l) == [type |-> "lit", lit |-> l]
        Member(k, v) == IF v.type = "absent" THEN <<>> ELSE << [key |-> k, val |-> v] >>
        optional ==
            IF c = "none" THEN <<>>
            ELSE Member(<<"factual_errors">>,
                        IF c = "bad_list" THEN JArr(<<Lit("1")>>)
                        ELSE JArr(<<JStr(<<"e1">>)>>))
                 \o Member(<<"writing_issues">>, JArr(<<>>))
                 \o Member(<<"facts_summary">>,
                           IF c = "bad_summary" THEN Lit("null") ELSE JStr(<<"fs">>))
                 \o (IF c = "extra" THEN Member(<<"confidence">>, Lit("1")) ELSE <<>>)
        ms == Member(<<"status">>, status) \o Member(<<"story">>, story) \o optional
    IN  JObj([ i \in 1..Len(ms) |-> ms[i].key ], [ i \in 1..Len(ms) |-> ms[i].val ])

\* two objects in one text; prose with a brace pair, or with one brace
\* only, before or after the object
BraceTexts ==
    LET approved == json_dumps(ShapedObject(JStr(<<"APPROVED">>), JStr(<<"d1">>), "none"))
        rejected == json_dumps(ShapedObject(JStr(<<"REJECTED">>), JStr(<<"d2">>), "none"))
    IN  { approved \o <<NL>> \o rejected,
          <<"Draft", SP, LB, "v2", RB, COLON, NL>> \o approved,
          rejected \o <<NL, "see", SP, LB, "note", RB>>,
          <<"a", SP, LB, SP, "b", NL>> \o approved,
          <<"a", SP, RB, SP, "b", NL>> \o approved,
          rejected \o <<NL, "see", SP, LB, SP, "note">>,
          rejected \o <<NL, "see", SP, RB, SP, "note">> }

\* objects of every shape; single-key objects around a fitting verdict,
\* around a verdict with a misfitting status and around an object without
\* status; texts with more than one brace pair
FinalTexts ==
    { json_dumps(ShapedObject(st, sy, c)) :
          st \in StatusChoices, sy \in StoryChoices, c \in OptionalChoices }
    \cup { Wrapped(ShapedObject(JStr(<<"REJECTED">>), JStr(<<"d1">>), "none")),
           Wrapped(ShapedObject(JStr(<<"approved">>), JStr(<<"d1">>), "all")),
           Wrapped(ShapedObject([type |-> "absent"], JStr(<<"d1">>), "none")) }
    \cup BraceTexts

\* The orchestrator's only message with text.
FinalMessageYields ==
    /\ epc = "running"
    /\ events = <<>>
    /\ \E t \in FinalTexts : Yield(Event("orchestrator", <<TextPart(t)>>))
    /\ UNCHANGED <<epc, result, failure, parse_attempted, org_id, session_id, response,
                   repairVars, searchVars, concVars>>
    /\ UNCHANGED orchVars

ParseNext == FinalMessageYields \/ StreamEnds

ParseSpec == Init /\ [][ParseNext]_vars

-----------------------------------------------------------------------------
(* Properties *)

Synthesized == Len(synth_log)     \* Synthesis invocations so far
Validated   == Len(val_log)       \* Validation invocations so far

RECURSIVE AllRejected(_, _)
AllRejected(vs, i) ==
    IF i > Len(vs) THEN TRUE
    ELSE vs[i].status = "REJECTED" /\ AllRejected(vs, i + 1)

\* C1 as stated: in every run, ended by a failure or not, Synthesis is
\* invoked at least once and at most _MAX_REWRITES + 1 times, and at
\* FINALIZE Validation has been invoked as often as Synthesis.
C1_EveryRunSynthesizes ==
    /\ Synthesized <= _MAX_REWRITES + 1
    /\ epc # "running" => Synthesized >= 1
    /\ pc = "FINALIZE" => Validated = Synthesized

\* C1 amended: Synthesis is never invoked more than _MAX_REWRITES + 1 times;
\* a run that reaches FINALIZE has invoked it at least once, and Validation
\* exactly as often.
C1_SynthesisCount ==
    /\ Synthesized <= _MAX_REWRITES + 1
    /\ pc = "FINALIZE" => /\ Synthesized >= 1
                          /\ Validated = Synthesized

C1_Witness ==
    /\ pc = "FINALIZE"
    /\ Synthesized = _MAX_REWRITES + 1
    /\ Validated = _MAX_REWRITES + 1

\* C2: once an APPROVED verdict is saved, the only step of the Orchestrator
\* is to FINALIZE, and neither Synthesis nor Validation is invoked again;
\* a run whose verdicts were REJECTED then APPROVED reaches FINALIZE with
\* exactly two Synthesis and two Validation invocations.
C2_ApprovedFinalizes ==
    /\ [][ (/\ pc \in {"VALIDATE", "FINALIZE"}
            /\ inflight = {}
            /\ saved_json.status = "APPROVED")
           => (/\ pc' = "FINALIZE"
               /\ synth_log' = synth_log
               /\ val_log' = val_log) ]_vars
    /\ [](( /\ pc = "FINALIZE"
            /\ Len(verdicts) >= 2
            /\ verdicts[1].status = "REJECTED"
            /\ verdicts[2].status = "APPROVED" )
          => (Synthesized = 2 /\ Validated = 2))

C2_Witness ==
    /\ pc = "FINALIZE"
    /\ Len(verdicts) = 2
    /\ verdicts[1].status = "REJECTED"
    /\ verdicts[2].status = "APPROVED"
    /\ epc = "returned"

\* C3 as stated: when all _MAX_REWRITES + 1 verdicts are REJECTED the run
\* goes to FINALIZE after exactly _MAX_REWRITES + 1 Synthesis/Validation
\* pairs, nothing is raised, and the returned result has status REJECTED
\* and a non-empty error list.
C3_ExhaustionReturnsRejected ==
    (Len(verdicts) = _MAX_REWRITES + 1 /\ AllRejected(verdicts, 1))
    => /\ pc \in {"VALIDATE", "FINALIZE"}
       /\ Synthesized = _MAX_REWRITES + 1
       /\ Validated = _MAX_REWRITES + 1
       /\ epc # "raised"
       /\ epc = "returned" =>
             /\ result.status = "REJECTED"
             /\ result.factual_errors # <<>> \/ result.writing_issues # <<>>

\* C4 as stated: a result returned with status APPROVED or REJECTED is
\* APPROVED exactly when both error lists are empty.
C4_ApprovedIffNoErrors ==
    (epc = "returned" /\ result.status \in {"APPROVED", "REJECTED"})
    => (result.status = "APPROVED"
        <=> (result.factual_errors = <<>> /\ result.writing_issues = <<>>))

\* C5: at FINALIZE the verdict output as the final message is the one the
\* most recent Validation invocation returned, and its story is the last
\* draft Synthesis returned.
C5_EmitsLastVerdict ==
    pc = "FINALIZE"
    => /\ emitted = verdicts[Len(verdicts)]
       /\ emitted.story = drafts[Len(drafts)]
       /\ events[Len(events)].author = "orchestrator"
       /\ events[Len(events)].parts
             = <<TextPart(json_dumps(VerdictJson(verdicts[Len(verdicts)])))>>

C5_Witness ==
    /\ pc = "FINALIZE"
    /\ Len(verdicts) = 3
    /\ emitted.status = "REJECTED"
    /\ verdicts[1].factual_errors # verdicts[3].factual_errors
    /\ drafts[1] # drafts[3]

\* C6: every Synthesis invocation after the first is passed the same
\* Internal and Research report as the first one, the draft the previous
\* invocation returned, and the two error lists of that draft's verdict.
C6_RewriteInputs ==
    \A i \in 2..Len(synth_log) :
        /\ synth_log[i].internal = synth_log[1].internal
        /\ synth_log[i].research = synth_log[1].research
        /\ synth_log[i].draft = Passed(drafts[i - 1])
        /\ synth_log[i].factual_errors = verdicts[i - 1].factual_errors
        /\ synth_log[i].writing_issues = verdicts[i - 1].writing_issues

C6_Witness ==
    /\ Len(synth_log) = 3
    /\ synth_log[3].internal.passed
    /\ drafts[1] # drafts[2]
    /\ verdicts[1].factual_errors # verdicts[2].factual_errors
    /\ verdicts[1].writing_issues # verdicts[2].writing_issues

\* The text of the last event of evs[1..j] that is authored by the
\* orchestrator and has a part with non-empty text.
RECURSIVE LastOrchestratorText(_, _)
LastOrchestratorText(evs, j) ==
    IF j < 1 THEN None
    ELSE LET textual == { k \in 1..Len(evs[j].parts) :
                            evs[j].parts[k].has_text /\ evs[j].parts[k].text # <<>> }
         IN  IF evs[j].author = "orchestrator" /\ textual # {}
             THEN Some(evs[j].parts[CHOOSE k \in textual : \A m \in textual : k <= m].text)
             ELSE LastOrchestratorText(evs, j - 1)

\* C7: at every point of the stream, and so when the text is parsed,
\* final_text is the text of the last orchestrator-authored event with
\* text; events of other authors and events without text do not change it.
C7_LastOrchestratorTextWins ==
    final_text = LastOrchestratorText(events, Len(events))

C7_Witness ==
    /\ epc = "returned"
    /\ Len(events) = 3
    /\ events[1] = Event("orchestrator", <<TextPart(RejectedText)>>)
    /\ events[2] = Event("validation_agent", <<TextPart(ApprovedText)>>)
    /\ events[3] = Event("orchestrator", <<CallPart>>)
    /\ result.status = "REJECTED"

\* C8: when the stream ends without any orchestrator-authored text, the
\* call raises "Pipeline completed but produced no output.", the parse is
\* not attempted and no result is returned.
C8_EmptyResultRaises ==
    ( /\ epc # "running"
      /\ failure.cause = "none"
      /\ LastOrchestratorText(events, Len(events)) = None )
    => /\ epc = "raised"
       /\ failure.message = "Pipeline completed but produced no output."
       /\ ~parse_attempted
       /\ result = NoResult

C8_Witness ==
    /\ epc = "raised"
    /\ failure.message = "Pipeline completed but produced no output."
    /\ Len(events) >= 2
    /\ events[1] = Event("validation_agent", <<TextPart(ApprovedText)>>)
    /\ events[2] = Event("orchestrator", <<TextPart(<<>>)>>)

\* C9: a failing capability invocation ends the run at once: the call has
\* raised the pipeline failure with the cause, no result is returned,
\* whatever text was collected, and no capability is invoked afterwards.
C9_FailureAborts ==
    /\ [](pc = "ABORTED"
          => /\ epc = "raised"
             /\ failure.message = "Impact story generation failed: "
             /\ failure.cause \in Causes
             /\ result = NoResult
             /\ inflight = {})
    /\ [][ pc = "ABORTED" => UNCHANGED vars ]_vars
    /\ [][ (inflight # {} /\ inflight' = {} /\ events' = events) => pc' = "ABORTED" ]_vars

C9_Witness ==
    /\ pc = "ABORTED"
    /\ epc = "raised"
    /\ final_text.set
    /\ Synthesized = 2
    /\ Validated = 1

\* C10: a final text that cannot be repaired and parsed into a verdict is
\* returned, not raised, as status ERROR with the raw final text as story,
\* one factual_errors entry describing the parse failure, and
\* writing_issues and facts_summary empty.
C10_DegradedResult ==
    ( /\ epc # "running"
      /\ failure.cause = "none"
      /\ final_text.set
      /\ ParseError(final_text.text) # "none" )
    => /\ epc = "returned"
       /\ result.status = "ERROR"
       /\ result.story = final_text.text
       /\ Len(result.factual_errors) = 1
       /\ result.factual_errors[1]
             = <<"Output parse failure: ", ParseError(final_text.text)>>
       /\ result.writing_issues = <<>>
       /\ result.facts_summary = <<>>

C10_Witness ==
    /\ epc = "returned"
    /\ final_text = Some(FencedProse)
    /\ result.status = "ERROR"
    /\ result.story # _extract_json(final_text.text)

\* C11: once the request layer has answered, a raised pipeline failure
\* (backend failure or empty result) was answered with 502 Bad Gateway and
\* the failure description as detail, and a returned result, whatever its
\* status, was answered with 200 and the result itself as body.
C11_FailureIs502ResultRelayed ==
    response # NoResponse =>
        /\ epc = "raised" =>
               /\ response.status_code = 502
               /\ response.body = NoResult
               /\ response.detail[1] = failure.message
               /\ \/ /\ failure.cause = "none"
                     /\ response.detail = <<"Pipeline completed but produced no output.">>
                  \/ /\ failure.cause \in Causes
                     /\ response.detail = <<"Impact story generation failed: ",
                                            failure.cause>>
        /\ epc = "returned" =>
               /\ response.status_code = 200
               /\ response.detail = <<>>
               /\ response.body = result
               /\ response.body.status \in {"APPROVED", "REJECTED", "ERROR"}

\* a stream that broke after an event was answered with 502, and the failure
\* text is the detail
C11_Witness ==
    /\ Len(events) > 0
    /\ epc = "raised"
    /\ response.status_code = 502
    /\ response.detail = <<"Impact story generation failed: ", "backend error">>

ResultFields ==
    {"status", "story", "factual_errors", "writing_issues", "facts_summary",
     "org_id", "total_elapsed"}

ParsesTo(t, expected) ==
    /\ json_loads(t).ok
    /\ json_dumps(json_loads(t).val) = expected

\* C13: applying _extract_json to its own output changes nothing.
C13_Idempotent ==
    rstep = 2 => twice = once

\* C14: a valid verdict object wrapped in code fences, or surrounded by
\* prose, or with the apostrophes of its strings written as
\* backslash-apostrophe, is repaired to text that parses to that object.
C14_RepairsNoise ==
    (rstep >= 1 /\ sample.kind \in {"fenced", "prose", "escaped"})
        => ParsesTo(once, sample.clean)

\* C15: a single-key wrapper around an object with a status, fenced or not,
\* is repaired to the inner object and the result carries the inner
\* object's fields; an object with two keys, or whose sole value has no
\* status, is repaired to itself.
C15_UnwrapsSingleKeyWrapper ==
    rstep >= 1 =>
        /\ sample.kind \in {"wrapped", "wrapped_fenced"} =>
               /\ ParsesTo(once, sample.clean)
               /\ ParseError(sample.raw) = "none"
               /\ \A f \in DOMAIN sample.verdict :
                      NormalResult(sample.raw, <<>>, 0)[f] = sample.verdict[f]
        /\ sample.kind \in {"two_keys", "no_status"} =>
               ParsesTo(once, sample.whole)

\* C19: a text that already is a valid verdict object is repaired to text
\* that parses to the same object.
C19_ValidIsPreserved ==
    (rstep >= 1 /\ sample.kind = "valid") => ParsesTo(once, sample.clean)

\* the text parses to a JSON object
IsObject(t) == json_loads(t).ok /\ json_loads(t).val.type = "obj"

\* C20 as stated: when the repair yields no parseable object, what it
\* returns is the raw input, token for token.
C20_ReturnsRawUnchanged ==
    (rstep >= 1 /\ ~IsObject(once)) => once = sample.raw

\* the span from the first opening brace to the last closing brace
BraceSpan(t) ==
    LET first == CHOOSE i \in 1..Len(t) : t[i] = LB /\ \A j \in 1..(i - 1) : t[j] # LB
        last  == CHOOSE i \in 1..Len(t) : t[i] = RB /\ \A j \in (i + 1)..Len(t) : t[j] # RB
    IN  SubSeq(t, first, last)

HasBraceSpan(t) ==
    \E i, j \in 1..Len(t) : i < j /\ t[i] = LB /\ t[j] = RB

\* the text without its fence markers (and the "json" tag and white space
\* after each) and without white space at either end
Unfenced(t) == strip(RemoveFences(t, 1))

\* C20: when the repair yields no parseable object, what it returns is the
\* text without fence markers and surrounding white space, or, when that
\* text has a brace span, the span with backslash-apostrophe rewritten; the
\* parse at the caller then fails.
C20_ReturnsRepairedSoFar ==
    (rstep >= 1 /\ ~IsObject(once)) =>
        /\ once = IF HasBraceSpan(Unfenced(sample.raw))
                  THEN FixEscapes(BraceSpan(Unfenced(sample.raw)), 1)
                  ELSE Unfenced(sample.raw)
        /\ ParseError(sample.raw) \in {"JSONDecodeError", "TypeError"}

\* fenced prose came back without its fences: not the raw input
C20_Witness ==
    /\ rstep >= 1
    /\ sample.raw = FencedProse
    /\ ~IsObject(once)
    /\ once = <<"not", SP, "json">>

Ended == epc \in {"returned", "raised"}

\* C16 as stated: a run that has ended had reached FINALIZE.
C16_EndsThroughFinalize ==
    Ended => pc = "FINALIZE"

\* C16: every run ends; Synthesis and Validation are never invoked more
\* than _MAX_REWRITES + 1 times; a run that ended either was aborted by a
\* failed invocation and raised, or reached FINALIZE and returned a result.
C16_Terminates ==
    /\ <>Ended
    /\ [](Synthesized <= _MAX_REWRITES + 1 /\ Validated <= _MAX_REWRITES + 1)
    /\ [](Ended => \/ epc = "raised" /\ pc = "ABORTED"
                   \/ epc = "returned" /\ pc = "FINALIZE"
                      /\ result.status \in {"APPROVED", "REJECTED", "ERROR"})

\* the retry budget was used up and the run ended with a result
C16_Witness ==
    /\ epc = "returned"
    /\ pc = "FINALIZE"
    /\ rewrites_so_far = _MAX_REWRITES
    /\ Synthesized = _MAX_REWRITES + 1

\* the results of a response that carry a chunk with content
RECURSIVE Usable(_, _)
Usable(results, i) ==
    IF i > Len(results) THEN 0
    ELSE (IF results[i] \in {Chunk(<<"c1">>), Chunk(<<"c2">>)} THEN 1 ELSE 0)
         + Usable(results, i + 1)

Labels(text) == Cardinality({ i \in 1..Len(text) : text[i] = LABEL })

\* C18: the call returns and never raises; the text is never empty; without
\* a data store id it is the sentinel and the backend was not called; when
\* the backend raised it is the "Database error: " text; with no usable
\* result it is "No annual report data found."; otherwise it holds one
\* labelled line per usable result, at most PageSize of them.
C18_SearchNeverRaises ==
    search_out.done =>
        LET env == search_env
            out == search_out
        IN  /\ ~out.raised
            /\ out.text # <<>>
            /\ env.data_store_id \in {"None", ""} =>
                   /\ out.text = <<"ERROR: DATA_STORE_ID is missing from environment variables.">>
                   /\ out.backend_calls = 0
            /\ (env.data_store_id = "ds1" /\ env.backend.raises) =>
                   out.text[1] = "Database error: "
            /\ (env.data_store_id = "ds1" /\ ~env.backend.raises) =>
                   /\ out.backend_calls = 1
                   /\ Usable(env.backend.results, 1) = 0 =>
                          out.text = <<"No annual report data found.">>
                   /\ Usable(env.backend.results, 1) > 0 =>
                          /\ Labels(out.text) = Usable(env.backend.results, 1)
                          /\ Labels(out.text) <= 3
                          /\ Len(out.text) = 3 * Labels(out.text)
                          /\ \A i \in 1..Len(out.text) :
                                 /\ i % 3 = 1 => out.text[i] = LABEL
                                 /\ i % 3 = 2 => out.text[i] \in {"c1", "c2"}
                                 /\ i % 3 = 0 => out.text[i] = NL

\* the backend raised and the tool returned the "Database error: " text
C18_Witness ==
    /\ search_out.done
    /\ search_env.data_store_id = "ds1"
    /\ search_env.backend.raises
    /\ ~search_out.raised
    /\ search_out.text = <<"Database error: ", "e">>

\* the session call r works on
SessionOf(r) == stores[runs[r].store][runs[r].sid]

\* C17: each started call has a store no other call uses, and a session
\* that holds exactly the events of its own stream; its final text is the
\* last orchestrator text of its own stream and its result is built from
\* that text and its own subject; a step of one call, its failure and its
\* cancellation included, leaves the locals of every other call as they
\* are. Two calls may carry the same subject and the same session id.
C17_RunsAreIsolated ==
    /\ [](\A r \in Runs :
            runs[r].rpc # "idle" =>
                /\ \A q \in Runs \ {r} :
                       runs[q].rpc # "idle" => runs[q].store # runs[r].store
                /\ SessionOf(r).exists
                /\ SessionOf(r).history = runs[r].events
                /\ runs[r].final_text
                       = LastOrchestratorText(runs[r].events, Len(runs[r].events))
                /\ runs[r].rpc = "returned" =>
                       /\ runs[r].final_text.set
                       /\ runs[r].result.org_id = runs[r].org
                       /\ runs[r].result.status =
                              IF runs[r].final_text.text = ApprovedText
                              THEN "APPROVED" ELSE "ERROR")
    /\ [][ \A r \in Runs :
              runs'[r] # runs[r] => \A q \in Runs \ {r} : runs'[q] = runs[q] ]_vars

\* two calls for the same subject with the same session id: one was
\* cancelled after an event, the other returned the approved story
C17_Witness ==
    /\ runs[1].sid = runs[2].sid
    /\ runs[1].rpc = "cancelled"
    /\ Len(runs[1].events) = 1
    /\ runs[2].rpc = "returned"
    /\ runs[2].result.status = "APPROVED"
    /\ SessionOf(2).history = runs[2].events

\* C21: at most one capability invocation is in progress at any time, and a
\* new one starts only when none is; the Research call starts only after
\* the Internal-Data call returned, the first Synthesis only after both
\* reports are saved, the n-th Validation only after the n-th Synthesis
\* returned its draft (and it evaluates that draft), and the next Synthesis
\* only after the previous Validation returned.
C21_StrictlySequential ==
    /\ [](/\ Cardinality(inflight) <= 1
          /\ pc \in {"RESEARCH", "SYNTHESIZE", "VALIDATE", "FINALIZE"}
                => internal_report # <<>>
          /\ Synthesized >= 1 => (internal_report # <<>> /\ research_report # <<>>)
          /\ Validated <= Len(drafts)
          /\ Synthesized <= Len(verdicts) + 1
          /\ \A n \in 1..Validated : val_log[n].draft = drafts[n]
          /\ "validation_agent" \in inflight => Len(drafts) = Synthesized
          /\ "synthesis_agent" \in inflight => Len(verdicts) = Validated)
    /\ [][ (inflight' # inflight /\ inflight' # {}) => inflight = {} ]_vars

\* the third Validation is in progress: three drafts and two verdicts came
\* back before it started
C21_Witness ==
    /\ inflight = {"validation_agent"}
    /\ Validated = 3
    /\ Len(drafts) = 3
    /\ Len(verdicts) = 2

\* C22: every Validation invocation, the first and each one after a
\* rewrite, is passed the RESEARCH REPORT, the draft it evaluates and, when
\* the Internal-Data capability found data, the INTERNAL REPORT.
C22_ValidationGetsBothReports ==
    \A n \in 1..Validated :
        /\ val_log[n].research = Passed(research_report)
        /\ val_log[n].draft = drafts[n]
        /\ internal_report # NoInternalData => val_log[n].internal = Passed(internal_report)

\* C23: while a capability invocation is in progress the run has not
\* reached FINALIZE and generate_impact_story has neither returned nor
\* raised; the only step the run can take is that invocation returning or
\* failing; so a run in which an invocation stays in progress forever never
\* reaches FINALIZE and the call never ends.
C23_NoTimeout ==
    /\ [](inflight # {} => /\ epc = "running"
                           /\ pc \notin {"FINALIZE", "ABORTED"}
                           /\ result = NoResult
                           /\ failure = NoFailure)
    /\ [][ inflight # {} => inflight' = {} ]_vars
    /\ (<>[](inflight # {})) => [](pc # "FINALIZE" /\ epc = "running")

\* the second Validation is in progress after text was collected: the call
\* is still running
C23_Witness ==
    /\ inflight = {"validation_agent"}
    /\ Validated = 2
    /\ final_text.set
    /\ epc = "running"
    /\ pc = "VALIDATE"

\* the parts of the event that carry non-empty text, in order
NonEmptyTexts(event) ==
    SelectSeq(event.parts, LAMBDA part : part.has_text /\ part.text # <<>>)

\* C24: when an event is looked at, final_text becomes the first non-empty
\* text of an orchestrator-authored event, whatever text parts follow it,
\* and stays what it was when the event has no part with non-empty text or
\* is not authored by the orchestrator.
C24_FirstTextPartOnly ==
    [][ events' # events =>
          LET event == events'[Len(events')]
              texts == NonEmptyTexts(event)
          IN  final_text' = IF event.author = "orchestrator" /\ Len(texts) > 0
                            THEN [set |-> TRUE, text |-> texts[1].text]
                            ELSE final_text ]_vars

\* an event with a function call, an empty text and two texts came after the
\* approved verdict: the first of the two texts is the final text
C24_Witness ==
    /\ Len(events) = 2
    /\ events[1] = Event("orchestrator", <<TextPart(ApprovedText)>>)
    /\ Len(NonEmptyTexts(events[2])) = 2
    /\ final_text = Some(ProseText)
    /\ epc = "returned"
    /\ result.status = "ERROR"

\* the object fits the verdict schema
Fits(o) ==
    LET has(k) == \E i \in 1..Len(o.keys) : o.keys[i] = k
        val(k) == o.vals[CHOOSE i \in 1..Len(o.keys) : o.keys[i] = k]
        strs(v) == v.type = "arr" /\ \A i \in 1..Len(v.items) : v.items[i].type = "str"
    IN  /\ has(<<"status">>) /\ val(<<"status">>).type = "str"
        /\ val(<<"status">>).str \in {<<"APPROVED">>, <<"REJECTED">>}
        /\ has(<<"story">>) /\ val(<<"story">>).type = "str"
        /\ has(<<"factual_errors">>) => strs(val(<<"factual_errors">>))
        /\ has(<<"writing_issues">>) => strs(val(<<"writing_issues">>))
        /\ has(<<"facts_summary">>) => val(<<"facts_summary">>).type = "str"

\* the final text is one JSON object as it stands
TextIsObject == final_text.set /\ IsObject(final_text.text)
TextObject   == json_loads(final_text.text).val

Candidate(o) ==
    IF /\ Len(o.keys) = 1
       /\ o.vals[1].type = "obj"
       /\ \E i \in 1..Len(o.vals[1].keys) : o.vals[1].keys[i] = <<"status">>
    THEN o.vals[1] ELSE o

\* the value of key k of the object as a string, or of a list of strings as
\* texts; empty when the key is missing
FieldText(o, k) ==
    IF \E i \in 1..Len(o.keys) : o.keys[i] = k
    THEN o.vals[CHOOSE i \in 1..Len(o.keys) : o.keys[i] = k].str
    ELSE <<>>
FieldList(o, k) ==
    IF \E i \in 1..Len(o.keys) : o.keys[i] = k
    THEN LET items == o.vals[CHOOSE i \in 1..Len(o.keys) : o.keys[i] = k].items
         IN  [ i \in 1..Len(items) |-> items[i].str ]
    ELSE <<>>

TopObjects(t) ==
    LET spans == { s \in (1..Len(t)) \X (1..Len(t)) :
                      /\ s[1] < s[2] /\ t[s[1]] = LB /\ t[s[2]] = RB
                      /\ IsObject(SubSeq(t, s[1], s[2])) }
    IN  { s \in spans : ~\E r \in spans : r # s /\ r[1] <= s[1] /\ s[2] <= r[2] }

\* there is a brace of the text outside the span
BraceOutside(t, s) ==
    \E k \in 1..Len(t) : (k < s[1] \/ k > s[2]) /\ t[k] \in {LB, RB}

\* an opening brace before the span or a closing brace after it
WidensSpan(t, s) ==
    \/ \E k \in 1..(s[1] - 1) : t[k] = LB
    \/ \E k \in (s[2] + 1)..Len(t) : t[k] = RB

=============================================================================
